---- MODULE Spec2Model ----
(***************************************************************************)
(* Model of the Vinted price bot (src/vinted_price_bot.py): the tracking   *)
(* sheet, VintedPriceBot.sync_with_google_sheets and VintedPriceBot.run.   *)
(*                                                                         *)
(* Conventions of the model                                                *)
(*  - A sheet cell is a record [k, s, n]: k = "blank" (empty cell),        *)
(*    k = "num" (a cell whose text float() parses; n is its value) or      *)
(*    k = "txt" (any other text; s is the text).                           *)
(*  - Prices are amounts with two decimals, held as integer cents;         *)
(*    percents are whole percents.                                         *)
(*  - The 'Last Updated' cell is the text "ts" (datetime.now() formatted). *)
(*  - Status texts are written without their emoji prefix.                 *)
(***************************************************************************)
EXTENDS Integers, Sequences, FiniteSets, TLC

(***************************************************************************)
(* Bounds and input domains                                                *)
(***************************************************************************)
\* Longest list of item links the profile page yields over one scrape.
MaxLinks == 2

\* Listing ids shown on the profile page.
Ids == {"101", "102"}
\* Prices a listing can show, in cents.
PricesOf(id) == IF id = "101" THEN {1000, 1802} ELSE {1000}
\* Values of DEFAULT_PRICE_CHANGE_PERCENT the bot may be configured with.
DefaultPercents == {-2, 10}

(***************************************************************************)
(* Cells and rows of the sheet                                             *)
(***************************************************************************)
Blank == [k |-> "blank", s |-> "", n |-> 0]
Num(n) == [k |-> "num", s |-> "", n |-> n]
Txt(s) == [k |-> "txt", s |-> s, n |-> 0]

\* Column labels, in the order the bot writes them.
Labels == <<"Item ID", "URL", "Title", "Current Price", "New Price",
            "Floor Price", "Price Change %", "Status", "Last Updated">>

HeaderRow == [i \in 1..9 |-> Txt(Labels[i])]

\* Column of a label in a sheet the bot wrote.
Col(label) == CHOOSE i \in 1..9 : Labels[i] = label

StatusNew == "New"
StatusActive == "Active"
StatusSold == "Sold/Removed"

\* Title and URL the page shows for a listing.
TitleOf(id) == "title-" \o id
UrlOf(id) == "https://www.vinted.lv/items/" \o id

\* Cells a user types into Floor Price and Price Change %.
UserFloorCells == {Blank, Num(1000), Txt("abc")}
UserPercentCells == {Blank, Num(-50), Txt("abc")}
\* Listings whose row the user edits by hand.
EditableIds == {"101"}

(***************************************************************************)
(* Python helpers                                                          *)
(***************************************************************************)
\* str(x) of a cell value.
Str(c) == IF c.k = "txt" THEN c.s ELSE IF c.k = "blank" THEN "" ELSE ToString(c.n)

\* bool(x) of a cell value: '' and 0 are falsy.
Truthy(c) == (c.k = "txt" /\ c.s # "") \/ (c.k = "num" /\ c.n # 0)

\* float(s): succeeds exactly on numeric text.
FloatOk(c) == c.k = "num"

\* dict.get(name, default) on a row dictionary (a function label -> cell).
Get(d, name, default) == IF name \in DOMAIN d THEN d[name] ELSE default

\* Variant: an absent label is looked up in the first column.
IndexOfDefaultFirst(headers, label) ==
  IF \E i \in 1..Len(headers) : headers[i] = Txt(label)
  THEN CHOOSE i \in 1..Len(headers) :
         /\ headers[i] = Txt(label)
         /\ \A j \in 1..(i - 1) : headers[j] # Txt(label)
  ELSE 1

\* list.index(label) on a header row; 0 when the label is absent.
IndexOf(headers, label) ==
  IF \E i \in 1..Len(headers) : headers[i] = Txt(label)
  THEN CHOOSE i \in 1..Len(headers) :
         /\ headers[i] = Txt(label)
         /\ \A j \in 1..(i - 1) : headers[j] # Txt(label)
  ELSE 0

\* round(current_price * (1 + percent / 100), 2), in cents. The amounts
\* of the model never fall on an exact half cent, where the binary float
\* decides the direction.
RoundDiv(a, b) == (2 * a + b) \div (2 * b)
PriceAfterPercent(price, percent) == RoundDiv(price * (100 + percent), 100)

(***************************************************************************)
(* Reading the tracked table (sync_with_google_sheets, first part)         *)
(***************************************************************************)
\* An ordered dictionary: keys in insertion order, row[key] the value.
EmptyDict == [keys |-> <<>>, row |-> [x \in {} |-> <<>>]]

\* d[key] = val: a key already present keeps its position.
Put(d, key, val) ==
  [keys |-> IF key \in DOMAIN d.row THEN d.keys ELSE Append(d.keys, key),
   row  |-> [x \in (DOMAIN d.row) \cup {key} |-> IF x = key THEN val ELSE d.row[x]]]

\* gspread refuses a header row in which a label occurs twice.
HeaderNotUnique(sh) ==
  /\ Len(sh) >= 1
  /\ \E i, j \in 1..Len(sh[1]) : i # j /\ sh[1][i] = sh[1][j]

\* One record of sheet.get_all_records(): the cells of a data row keyed by
\* the labels of row 1.
RecordOf(headers, r) ==
  [name \in {Str(headers[i]) : i \in 1..Len(headers)} |->
     r[CHOOSE i \in 1..Len(headers) : Str(headers[i]) = name]]

\* existing_dict of the structured read: records whose 'Item ID' is truthy,
\* keyed by str(Item ID).
RECURSIVE RecordsDict(_, _, _)
RecordsDict(sh, i, d) ==
  IF i > Len(sh) THEN d
  ELSE LET rec == RecordOf(sh[1], sh[i])
           idc == Get(rec, "Item ID", Blank)
       IN  RecordsDict(sh, i + 1,
                       IF Truthy(idc) THEN Put(d, Str(idc), rec) ELSE d)

ReadRecords(sh) == IF Len(sh) <= 1 THEN EmptyDict ELSE RecordsDict(sh, 2, EmptyDict)

\* Index of the first row that contains the 'Item ID' label; 0 if none.
FindHeaderRow(all_values) ==
  IF \E i \in 1..Len(all_values) : IndexOf(all_values[i], "Item ID") # 0
  THEN CHOOSE i \in 1..Len(all_values) :
         /\ IndexOf(all_values[i], "Item ID") # 0
         /\ \A j \in 1..(i - 1) : IndexOf(all_values[j], "Item ID") = 0
  ELSE 0

\* Variant: the cell is taken from the column the bot writes the label in.
ManualCellByPosition(headers, r, label, default) ==
  r[CHOOSE i \in 1..9 : Labels[i] = label]

\* One cell of the manual parse: the cell under the label, or the default.
ManualCell(headers, r, label, default) ==
  IF IndexOf(headers, label) # 0 /\ Len(r) >= IndexOf(headers, label)
  THEN r[IndexOf(headers, label)]
  ELSE default

ManualRow(headers, r) ==
  [name \in {Labels[i] : i \in 1..9} |->
     IF name = "Item ID" THEN r[IndexOf(headers, "Item ID")]
     ELSE IF name \in {"Current Price", "New Price"}
          THEN ManualCell(headers, r, name, Num(0))
          ELSE ManualCell(headers, r, name, Blank)]

RECURSIVE ManualDict(_, _, _, _)
ManualDict(all_values, headers, i, d) ==
  IF i > Len(all_values) THEN d
  ELSE LET r   == all_values[i]
           col == IndexOf(headers, "Item ID")
       IN  ManualDict(all_values, headers, i + 1,
                      IF Len(r) >= col /\ r[col].k # "blank"
                      THEN Put(d, Str(r[col]), ManualRow(headers, r))
                      ELSE d)

\* existing_dict of the manual fallback scan over sheet.get_all_values().
ReadManual(all_values) ==
  IF Len(all_values) > 1
     /\ FindHeaderRow(all_values) # 0
     /\ Len(all_values) > FindHeaderRow(all_values)
  THEN ManualDict(all_values, all_values[FindHeaderRow(all_values)],
                  FindHeaderRow(all_values) + 1, EmptyDict)
  ELSE EmptyDict

\* The three ways the read ends: the structured read returns ("records"),
\* it raises and the manual scan returns ("manual"), or both raise ("fail").
ReadModes == {"records", "manual", "fail"}

ReadExisting(sh, mode) ==
  IF mode = "records" THEN ReadRecords(sh)
  ELSE IF mode = "manual" THEN ReadManual(sh)
  ELSE EmptyDict

(***************************************************************************)
(* Reconciliation and pricing (sync_with_google_sheets, second part)       *)
(***************************************************************************)
CurrentItemIds(its) == {its[i].id : i \in 1..Len(its)}

IsNewItem(item, existing) == item.id \notin DOMAIN existing.row

\* Variant: every id of the sheet is taken as removed.
RemovedItemIdsAll(existing, its) == existing.keys

\* Ids in the sheet but not on Vinted, in dictionary order.
RemovedItemIds(existing, its) ==
  SelectSeq(existing.keys, LAMBDA k : k \notin CurrentItemIds(its))

\* Variant: the stored percent is not read.
ResolvePercentDefaultOnly(old_data, default) == default

\* Percent of an existing row: the stored cell if non-empty and float()
\* accepts it, else the default.
ResolvePercent(old_data, default) ==
  LET c == Get(old_data, "Price Change %", Blank)
  IN  IF c.k # "blank" /\ FloatOk(c) THEN c.n ELSE default

\* Floor of an existing row: Num(v) when set, Blank for None.
ResolveFloor(old_data) ==
  LET c == Get(old_data, "Floor Price", Blank)
  IN  IF c.k # "blank" /\ FloatOk(c) THEN Num(c.n) ELSE Blank

\* Variant: a discovered listing gets the default percent at once.
NewItemPercentDefault(default) == default

\* Percent applied to a listing on first discovery.
NewItemPercent(default) == 0

\* Variant: the status stored in the sheet is carried over.
ExistingItemStatusKept(old_data) == Str(Get(old_data, "Status", Blank))

\* Status given to a listing that is already in the sheet.
ExistingItemStatus(old_data) == StatusActive

\* Variant: the floor is not applied.
ApplyFloorIgnored(new_price, floor_price) == new_price

\* Apply floor price if set.
ApplyFloor(new_price, floor_price) ==
  IF floor_price.k = "num" /\ new_price < floor_price.n
  THEN floor_price.n
  ELSE new_price

\* The item dictionary after the loop body of lines 660-709.
Annotate(item, existing, default) ==
  LET is_new  == IsNewItem(item, existing)
      percent == IF is_new THEN NewItemPercent(default)
                 ELSE ResolvePercent(existing.row[item.id], default)
      floor   == IF is_new THEN Blank ELSE ResolveFloor(existing.row[item.id])
  IN  [id |-> item.id, title |-> item.title, price |-> item.price,
       url |-> item.url,
       new_price |-> ApplyFloor(PriceAfterPercent(item.price, percent), floor),
       price_change_percent |-> percent,
       floor_price |-> floor,
       is_new_discovery |-> is_new,
       status |-> IF is_new THEN StatusNew
                  ELSE ExistingItemStatus(existing.row[item.id])]

\* Variant: the percent used for the price is written for every listing.
PercentWrittenAsUsed(a, default) == Num(a.price_change_percent)

\* Percent cell written for a listing on the page.
PercentWritten(a, default) ==
  IF a.is_new_discovery THEN Num(default) ELSE Num(a.price_change_percent)

\* Variant: the floor cell is always written empty.
FloorWrittenEmpty(a) == Blank

\* Floor cell written for a listing on the page.
FloorWritten(a) == a.floor_price

\* Variant: the current price is written into the New Price cell.
NewPriceWrittenAsCurrent(a) == Num(a.price)

\* New Price cell written for a listing on the page.
NewPriceWritten(a) == Num(a.new_price)

\* The sheet row appended for a listing on the page (lines 711-721).
ItemRow(a, default) ==
  <<Txt(a.id), Txt(a.url), Txt(a.title), Num(a.price), NewPriceWritten(a),
    FloorWritten(a), PercentWritten(a, default), Txt(a.status), Txt("ts")>>

\* Variant: the stored percent of a removed listing is carried over.
RemovedPercentKept(old_data) == Get(old_data, "Price Change %", Blank)

\* Percent cell written for a listing that left the page.
RemovedPercent(old_data) == Num(0)

\* Variant: the current price is written into the New Price cell.
RemovedNewPriceFromCurrent(old_data) == Get(old_data, "Current Price", Num(0))

\* New Price cell written for a listing that left the page.
RemovedNewPrice(old_data) == Get(old_data, "New Price", Num(0))

\* The sheet row appended for a removed listing (lines 724-737).
RemovedRow(item_id, old_data) ==
  <<Txt(item_id), Get(old_data, "URL", Blank), Get(old_data, "Title", Txt("Unknown")),
    Get(old_data, "Current Price", Num(0)), RemovedNewPrice(old_data),
    Get(old_data, "Floor Price", Blank), RemovedPercent(old_data),
    Txt(StatusSold), Txt("ts")>>

\* updated_rows: header, listings in snapshot order, removed rows.
UpdatedRows(its, existing, default) ==
  LET annotated == [i \in 1..Len(its) |-> Annotate(its[i], existing, default)]
      removed   == RemovedItemIds(existing, its)
  IN  <<HeaderRow>>
      \o [i \in 1..Len(its) |-> ItemRow(annotated[i], default)]
      \o [j \in 1..Len(removed) |-> RemovedRow(removed[j], existing.row[removed[j]])]

(***************************************************************************)
(* Writing the sheet (sync_with_google_sheets, lines 739-741)              *)
(***************************************************************************)
\* One call on the sheet: its name, the first and last row of its range
\* and the rows it carries.
SheetOp(name, first, last, rows) ==
  [op |-> name, first |-> first, last |-> last, rows |-> rows]

\* Variant: the sheet is not cleared before the update.
SheetOpsWithoutClear(updated_rows) ==
  <<SheetOp("update", 1, Len(updated_rows), updated_rows)>>

\* sheet.clear(), then sheet.update('A1:I<n>', updated_rows).
SheetOps(updated_rows) ==
  <<SheetOp("clear", 0, 0, <<>>),
    SheetOp("update", 1, Len(updated_rows), updated_rows)>>

BlankRow == [i \in 1..9 |-> Blank]

\* The sheet after one call.
ApplyOp(sh, o) ==
  IF o.op = "clear" THEN <<>>
  ELSE [r \in 1..(IF Len(sh) > o.last THEN Len(sh) ELSE o.last) |->
          IF r >= o.first /\ r <= o.last THEN o.rows[r - o.first + 1]
          ELSE IF r <= Len(sh) THEN sh[r]
          ELSE BlankRow]

\* The sheet after the calls ops[i], ops[i+1], ...
RECURSIVE ApplyOps(_, _, _)
ApplyOps(sh, ops, i) ==
  IF i > Len(ops) THEN sh ELSE ApplyOps(ApplyOp(sh, ops[i]), ops, i + 1)

\* The calls without the rows they carry.
Ranges(ops) ==
  [i \in 1..Len(ops) |-> [op |-> ops[i].op, first |-> ops[i].first, last |-> ops[i].last]]

(***************************************************************************)
(* Scraping (get_listed_items) and price updates (run)                     *)
(***************************************************************************)
Link(id, price) == [id |-> id, title |-> TitleOf(id), price |-> price, url |-> UrlOf(id)]

Links == UNION {{Link(id, p) : p \in PricesOf(id)} : id \in Ids}

\* Link lists the page can yield over the scroll passes, in order.
LinkSeqs == UNION {[1..n -> Links] : n \in 0..MaxLinks}

\* items: a link whose id is in processed_ids is skipped.
RECURSIVE Collect(_, _, _, _)
Collect(links, i, processed_ids, acc) ==
  IF i > Len(links) THEN acc
  ELSE IF links[i].id \in processed_ids
       THEN Collect(links, i + 1, processed_ids, acc)
       ELSE Collect(links, i + 1, processed_ids \cup {links[i].id},
                    Append(acc, links[i]))

GetListedItems(links) == Collect(links, 1, {}, <<>>)

\* items_to_update: price changes, newly discovered listings excluded.
ItemsToUpdate(its) ==
  SelectSeq(its, LAMBDA it : it.new_price # it.price /\ ~it.is_new_discovery)

\* Variant: every element of items_to_update is passed on.
UpdateCallsAll(its) == ItemsToUpdate(its)

\* Variant: the last element is taken from items, not from items_to_update.
UpdateCallsLastOfItems(its) ==
  IF ItemsToUpdate(its) # <<>> THEN <<its[Len(its)]>> ELSE <<>>

\* Arguments of the update_item_price calls of one run: the last element.
UpdateCalls(its) ==
  IF ItemsToUpdate(its) # <<>>
  THEN <<ItemsToUpdate(its)[Len(ItemsToUpdate(its))]>>
  ELSE <<>>

\* The id and price of each listing of a snapshot.
Snapshot(its) == [i \in 1..Len(its) |-> <<its[i].id, its[i].price>>]

(***************************************************************************)
(* The scroll loop of get_listed_items                                     *)
(***************************************************************************)
max_scrolls == 20
\* Passes without a new item after which the loop stops (line 460).
NoNewLimit == 3
\* Most item links visible in one scroll pass.
MaxVisible == 2

\* A link element as one pass sees it: ok is FALSE when its href is missing
\* or reading it raises, so that the link is skipped.
PageLink(id, price, ok) ==
  [id |-> id, title |-> TitleOf(id), price |-> price, url |-> UrlOf(id), ok |-> ok]

PageLinks == UNION {{PageLink(id, p, ok) : p \in PricesOf(id), ok \in BOOLEAN} : id \in Ids}

\* What find_elements can return in one pass.
Passes == UNION {[1..n -> PageLinks] : n \in 0..MaxVisible}

\* Listings of a long profile page, in page order.
LongPageLen == 6
PageList == [i \in 1..LongPageLen |-> ToString(200 + i)]
PageIds == {PageList[i] : i \in 1..LongPageLen}
PagePrice == 1000

\* What find_elements can return in one pass over the long page once n
\* listings were scraped: up to MaxVisible neighbouring links, none of them
\* beyond the links the page has loaded so far, each readable or not.
Windows(n) ==
  UNION {UNION {{[i \in 1..len |-> PageLink(PageList[a + i - 1], PagePrice, ok[i])] :
                   ok \in [1..len -> BOOLEAN]} :
                len \in 0..(IF LongPageLen - a + 1 < MaxVisible
                            THEN LongPageLen - a + 1 ELSE MaxVisible)} :
         a \in 1..(IF n + 1 < LongPageLen THEN n + 1 ELSE LongPageLen)}

\* Variant: the id of a scraped link is not remembered.
MarkProcessedNever(processed_ids, item_id) == processed_ids

\* processed_ids.add(item_id)
MarkProcessed(processed_ids, item_id) == processed_ids \cup {item_id}

\* Variant: the loop goes on while either limit is not reached.
KeepScrollingEither(scroll_attempts, no_new_items_count) ==
  scroll_attempts < max_scrolls \/ no_new_items_count < NoNewLimit

\* The condition of the while loop.
KeepScrolling(scroll_attempts, no_new_items_count) ==
  scroll_attempts < max_scrolls /\ no_new_items_count < NoNewLimit

\* The for loop over the links of one pass, from link i on: the locals
\* processed_ids, items and items_found_this_scroll after it.
RECURSIVE ScrapeLinks(_, _, _, _, _)
ScrapeLinks(item_links, i, processed_ids, its, items_found_this_scroll) ==
  IF i > Len(item_links)
  THEN [processed_ids |-> processed_ids, items |-> its,
        items_found_this_scroll |-> items_found_this_scroll]
  ELSE IF item_links[i].id \in processed_ids \/ ~item_links[i].ok
       THEN ScrapeLinks(item_links, i + 1, processed_ids, its, items_found_this_scroll)
       ELSE ScrapeLinks(item_links, i + 1,
                        MarkProcessed(processed_ids, item_links[i].id),
                        Append(its, Link(item_links[i].id, item_links[i].price)),
                        items_found_this_scroll + 1)

\* The price of the first readable link of the pass with this id, -1 if the
\* pass has none.
FirstReadable(item_links, id) ==
  IF \E i \in 1..Len(item_links) : item_links[i].id = id /\ item_links[i].ok
  THEN item_links[CHOOSE i \in 1..Len(item_links) :
                    /\ item_links[i].id = id /\ item_links[i].ok
                    /\ \A j \in 1..(i - 1) : ~(item_links[j].id = id /\ item_links[j].ok)].price
  ELSE -1

\* The loop's locals before get_listed_items is called, with the history
\* the properties are stated on: passes counts the passes made, dry the
\* latest passes in a row that added nothing to items, and first_read gives
\* for each id the price of the first link of that id that was readable.
ScrollOff ==
  [pos |-> "off", scroll_attempts |-> 0, no_new_items_count |-> 0,
   processed_ids |-> {}, items |-> <<>>,
   passes |-> 0, dry |-> 0, first_read |-> [id \in Ids \cup PageIds |-> -1]]

\* No listing's price is followed.
NoLive == <<>>

\* The followed prices once the calls of update_item_price have saved the
\* new price on the site (lines 1084-1095).
AfterUpdates(lv, calls) ==
  [id \in DOMAIN lv |->
     IF \E j \in 1..Len(calls) : calls[j].id = id
     THEN calls[CHOOSE j \in 1..Len(calls) : calls[j].id = id].new_price
     ELSE lv[id]]

(***************************************************************************)
(* State                                                                   *)
(***************************************************************************)
VARIABLES
  default_percent,  \* self.default_percent
  sheet,            \* the rows of the tracking sheet, header included
  pc,               \* position of run(): "idle", "fetched", "synced",
                    \* "logged", "finally"
  items,            \* the local items of run()
  existing_dict,    \* the existing_dict returned by the sync
  read_mode,        \* how the sync of this run read the table
  can_update,       \* the local can_update of run()
  update_calls,     \* the items passed to update_item_price in this run
  driver,           \* self.driver: "none", "open" or "quit"
  sheet_before,     \* the sheet as it was when the sync of this run began
  last_snapshot,    \* the ids and prices of the previous sync's snapshot
  edited,           \* a user edited the sheet since the previous sync
  repeat,           \* the sync of this run saw the previous sync's snapshot
                    \* again, with no user edit in between
  sheet_ops,        \* the calls the sync of this run made on the sheet: for
                    \* each its name and the first and last row of its range
  scroll,           \* the locals of the scroll loop of get_listed_items
  raised,           \* an exception is leaving run() through line 1206
  quit_calls,       \* the calls of self.driver.quit() made in this run
  live              \* the price the site holds for each listing whose price
                    \* is followed from run to run

vars == <<default_percent, sheet, pc, items, existing_dict, read_mode,
          can_update, update_calls, driver, sheet_before, last_snapshot,
          edited, repeat, sheet_ops, scroll, raised, quit_calls,
          live>>

Init ==
  /\ default_percent \in DefaultPercents
  /\ sheet = <<>>
  /\ pc = "idle"
  /\ items = <<>>
  /\ existing_dict = EmptyDict
  /\ read_mode = "none"
  /\ can_update = FALSE
  /\ update_calls = <<>>
  /\ driver = "none"
  /\ sheet_before = <<>>
  /\ last_snapshot = <<>>
  /\ edited = FALSE
  /\ repeat = FALSE
  /\ sheet_ops = <<>>
  /\ scroll = ScrollOff
  /\ raised = FALSE
  /\ quit_calls = 0
  /\ live = NoLive

(***************************************************************************)
(* Actions                                                                 *)
(***************************************************************************)
\* Variant: the sync is called with whatever the scrape returned.
AfterFetchAlwaysSync(its) == "fetched"

\* Lines 1130-1132: where run() goes on after the scrape.
AfterFetch(its) == IF its = <<>> THEN "finally" ELSE "fetched"

\* run(), lines 1117-1132: set up the driver and the sheet, scrape the
\* profile; an empty list ends the run.
Fetch(links) ==
  /\ pc = "idle"
  /\ driver' = "open"
  /\ items' = GetListedItems(links)
  /\ pc' = AfterFetch(items')
  /\ raised' = FALSE
  /\ quit_calls' = 0
  /\ UNCHANGED <<live, scroll, default_percent, sheet, existing_dict, read_mode, can_update,
                 update_calls, sheet_before, last_snapshot, edited, repeat,
                 sheet_ops>>

\* sync_with_google_sheets(items), called at line 1135.
Sync(mode) ==
  /\ pc = "fetched"
  /\ mode = "records" => ~HeaderNotUnique(sheet)
  /\ LET existing == ReadExisting(sheet, mode)
     IN  /\ existing_dict' = existing
         /\ items' = [i \in 1..Len(items) |-> Annotate(items[i], existing, default_percent)]
         /\ sheet' = ApplyOps(sheet, SheetOps(UpdatedRows(items, existing, default_percent)), 1)
         /\ sheet_ops' = Ranges(SheetOps(UpdatedRows(items, existing, default_percent)))
  /\ read_mode' = mode
  /\ sheet_before' = sheet
  /\ repeat' = (Snapshot(items) = last_snapshot /\ ~edited)
  /\ last_snapshot' = Snapshot(items)
  /\ edited' = FALSE
  /\ pc' = "synced"
  /\ UNCHANGED <<live, raised, quit_calls, scroll, default_percent, can_update, update_calls, driver>>

\* Variant: an exception of login_to_vinted is not caught.
LoginErrorPropagates(ok) == ~ok

\* Whether an exception of login_to_vinted leaves run(): it is caught at
\* line 1144.
LoginErrorLeaves(ok) == FALSE

\* run(), lines 1141-1147: login_to_vinted returns or raises.
Login(ok) ==
  /\ pc = "synced"
  /\ can_update' = ok
  /\ raised' = LoginErrorLeaves(ok)
  /\ pc' = IF raised' THEN "finally" ELSE "logged"
  /\ UNCHANGED <<live, quit_calls, scroll, default_percent, sheet, items, existing_dict, read_mode,
                 update_calls, driver, sheet_before, last_snapshot, edited, repeat,
                 sheet_ops>>

\* Variant: the update is attempted whether or not the login succeeded.
CallsOfRunWithoutLogin(logged_in, its) == UpdateCalls(its)

\* The update_item_price calls of a run: none unless can_update.
CallsOfRun(logged_in, its) == IF logged_in THEN UpdateCalls(its) ELSE <<>>

\* run(), lines 1149-1202: the price update of the last changed item.
UpdatePrices ==
  /\ pc = "logged"
  /\ update_calls' = CallsOfRun(can_update, items)
  /\ live' = AfterUpdates(live, update_calls')
  /\ pc' = "finally"
  /\ UNCHANGED <<raised, quit_calls, scroll, default_percent, sheet, items, existing_dict, read_mode,
                 can_update, driver, sheet_before, last_snapshot, edited, repeat,
                 sheet_ops>>

\* Variant: the driver is quit at the end of the try block, so not when an
\* exception is leaving run().
QuitsAtEndOfTry(d, exc) == IF d = "open" /\ ~exc THEN 1 ELSE 0

\* The quit() calls of the finally block: one if self.driver is set.
QuitsInFinally(d, exc) == IF d = "open" THEN 1 ELSE 0

\* run(), lines 1208-1210, and the end of the process.
Finally ==
  /\ pc = "finally"
  /\ quit_calls' = quit_calls + QuitsInFinally(driver, raised)
  /\ driver' = IF quit_calls' > quit_calls THEN "quit" ELSE driver
  /\ pc' = "idle"
  /\ items' = <<>>
  /\ existing_dict' = EmptyDict
  /\ read_mode' = "none"
  /\ can_update' = FALSE
  /\ update_calls' = <<>>
  /\ sheet_before' = <<>>
  /\ repeat' = FALSE
  /\ sheet_ops' = <<>>
  /\ UNCHANGED <<live, raised, scroll, default_percent, sheet, last_snapshot, edited>>

\* Between two runs the user types into the Floor Price or the
\* Price Change % cell of a data row.
UserEdit(r, col, cell) ==
  /\ pc = "idle"
  /\ r \in 2..Len(sheet)
  /\ Str(sheet[r][1]) \in EditableIds
  /\ \/ col = Col("Floor Price") /\ cell \in UserFloorCells
     \/ col = Col("Price Change %") /\ cell \in UserPercentCells
  /\ sheet[r][col] # cell
  /\ sheet' = [sheet EXCEPT ![r][col] = cell]
  /\ edited' = TRUE
  /\ UNCHANGED <<live, raised, quit_calls, scroll, default_percent, pc, items, existing_dict, read_mode,
                 can_update, update_calls, driver, sheet_before,
                 last_snapshot, repeat, sheet_ops>>

Next ==
  \/ \E links \in LinkSeqs : Fetch(links)
  \/ \E mode \in ReadModes : Sync(mode)
  \/ \E ok \in BOOLEAN : Login(ok)
  \/ UpdatePrices
  \/ Finally
  \/ \E r \in 2..Len(sheet), col \in {Col("Floor Price"), Col("Price Change %")},
          cell \in UserFloorCells \cup UserPercentCells :
       UserEdit(r, col, cell)

Spec == Init /\ [][Next]_vars

(***************************************************************************)
(* Hand edits of the table's shape                                         *)
(***************************************************************************)
\* The sheet is as a sync wrote it: the header in row 1, then one row per
\* listing.
AsWritten(sh) ==
  /\ Len(sh) >= 2
  /\ sh[1] = HeaderRow
  /\ \A r \in 2..Len(sh) : sh[r][1].k = "txt"

TitleRow == [i \in 1..9 |-> IF i = 1 THEN Txt("My Vinted items") ELSE Blank]

\* The cells of a row with the cells of columns a and b exchanged.
SwapCells(row, a, b) ==
  [i \in 1..Len(row) |-> IF i = a THEN row[b] ELSE IF i = b THEN row[a] ELSE row[i]]

\* Between two runs the user inserts a title row above the header.
InsertTitleRow ==
  /\ pc = "idle"
  /\ AsWritten(sheet)
  /\ sheet' = <<TitleRow>> \o sheet
  /\ edited' = TRUE
  /\ UNCHANGED <<live, raised, quit_calls, scroll, default_percent, pc, items, existing_dict, read_mode,
                 can_update, update_calls, driver, sheet_before,
                 last_snapshot, repeat, sheet_ops>>

\* Between two runs the user deletes the header row.
DeleteHeaderRow ==
  /\ pc = "idle"
  /\ AsWritten(sheet)
  /\ sheet' = Tail(sheet)
  /\ edited' = TRUE
  /\ UNCHANGED <<live, raised, quit_calls, scroll, default_percent, pc, items, existing_dict, read_mode,
                 can_update, update_calls, driver, sheet_before,
                 last_snapshot, repeat, sheet_ops>>

\* Between two runs the user exchanges the Floor Price and the
\* Price Change % columns, labels included.
SwapColumns ==
  /\ pc = "idle"
  /\ AsWritten(sheet)
  /\ sheet' = [r \in 1..Len(sheet) |->
                 SwapCells(sheet[r], Col("Floor Price"), Col("Price Change %"))]
  /\ edited' = TRUE
  /\ UNCHANGED <<live, raised, quit_calls, scroll, default_percent, pc, items, existing_dict, read_mode,
                 can_update, update_calls, driver, sheet_before,
                 last_snapshot, repeat, sheet_ops>>

\* Between two runs the user leaves a row with an empty id cell below the
\* data rows.
AppendBlankRow ==
  /\ pc = "idle"
  /\ AsWritten(sheet)
  /\ sheet' = Append(sheet, [i \in 1..9 |-> IF i = Col("Title") THEN Txt("note") ELSE Blank])
  /\ edited' = TRUE
  /\ UNCHANGED <<live, raised, quit_calls, scroll, default_percent, pc, items, existing_dict, read_mode,
                 can_update, update_calls, driver, sheet_before,
                 last_snapshot, repeat, sheet_ops>>

NextHand ==
  \/ \E links \in LinkSeqs : Fetch(links)
  \/ \E mode \in ReadModes : Sync(mode)
  \/ \E ok \in BOOLEAN : Login(ok)
  \/ UpdatePrices
  \/ Finally
  \/ InsertTitleRow
  \/ DeleteHeaderRow
  \/ SwapColumns
  \/ AppendBlankRow

\* Runs of the bot on a table whose shape the user changes by hand.
SpecHand == Init /\ [][NextHand]_vars

(***************************************************************************)
(* Vocabulary of the properties                                            *)
(***************************************************************************)
\* The sync of the current run has returned.
Synced == pc \in {"synced", "logged", "finally"} /\ read_mode # "none"

\* The read of the current run's sync returned the table.
ReadOk == read_mode \in {"records", "manual"}

\* Item IDs of the data rows of a sheet, and the rows that carry an id.
SheetIds(sh) == {Str(sh[r][Col("Item ID")]) : r \in 2..Len(sh)}
RowsOf(sh, id) == {r \in 2..Len(sh) : Str(sh[r][Col("Item ID")]) = id}

\* Ids tracked at the start of the sync, and the row read for one.
Tracked == DOMAIN existing_dict.row
Old(id) == existing_dict.row[id]

\* Listings of the snapshot, by position.
Pos == 1..Len(items)

\* Some row of the sheet carries id, and every such row satisfies P.
AllRows(id, P(_)) ==
  /\ RowsOf(sheet, id) # {}
  /\ \A r \in RowsOf(sheet, id) : P(sheet[r])

(***************************************************************************)
(* Properties                                                              *)
(***************************************************************************)
\* C1: every id that is a key of the tracked table read at the start of the
\* run and is not among the snapshot's ids is written with status
\* Sold/Removed and Price Change % = 0, on every run, also for rows that
\* were already Sold/Removed.
C1_RemovedWrittenSold ==
  Synced =>
    \A id \in Tracked :
      id \notin CurrentItemIds(items) =>
        AllRows(id, LAMBDA row : /\ row[Col("Status")] = Txt(StatusSold)
                                 /\ row[Col("Price Change %")] = Num(0))

\* A row that was already Sold/Removed with a user-typed percent is absent
\* again and has been written.
C1_Witness ==
  /\ Synced
  /\ \E id \in Tracked :
       /\ id \notin CurrentItemIds(items)
       /\ Old(id)["Status"] = Txt(StatusSold)
       /\ Old(id)["Price Change %"] = Num(-50)
       /\ AllRows(id, LAMBDA row : row[Col("Status")] = Txt(StatusSold))

\* C2: for every snapshot listing that is already tracked and whose stored
\* Floor Price parses as a number, the new_price computed by the sync is
\* greater than or equal to that floor.
C2_NewPriceAtLeastFloor ==
  Synced =>
    \A i \in Pos :
      (items[i].id \in Tracked /\ FloatOk(Old(items[i].id)["Floor Price"])) =>
        items[i].new_price >= Old(items[i].id)["Floor Price"].n

\* A tracked listing whose percent takes the price below the floor.
C2_Witness ==
  /\ Synced
  /\ \E i \in Pos :
       /\ items[i].id \in Tracked
       /\ Old(items[i].id)["Floor Price"] = Num(1000)
       /\ items[i].price_change_percent = -50
       /\ items[i].price = 1802
       /\ items[i].new_price = 1000

\* C3: for every snapshot listing whose id is not in the tracked table, the
\* computed new_price equals the listing's current price, for every value
\* of default_percent.
C3_NewListingKeepsPrice ==
  Synced =>
    \A i \in Pos :
      items[i].id \notin Tracked =>
        /\ items[i].new_price = items[i].price
        /\ AllRows(items[i].id, LAMBDA row : row[Col("New Price")] = Num(items[i].price))

\* A listing is discovered while the default percent would change its price.
C3_Witness ==
  /\ Synced
  /\ \E i \in Pos :
       /\ items[i].id \notin Tracked
       /\ PriceAfterPercent(items[i].price, default_percent) # items[i].price
       /\ AllRows(items[i].id, LAMBDA row : row[Col("Status")] = Txt(StatusNew))

\* C4: in run(), a listing first discovered in this run (its id is not in
\* the tracked table read by the sync) is never passed to update_item_price
\* in that same run.
C4_NewDiscoveryNotUpdated ==
  \A j \in 1..Len(update_calls) : update_calls[j].id \in Tracked

\* A run that discovered a listing has updated the price of another one.
C4_Witness ==
  /\ pc = "finally"
  /\ can_update
  /\ update_calls # <<>>
  /\ \E i \in Pos : items[i].id \notin Tracked
  /\ items[Len(items)].id \notin Tracked

\* C5: whichever table-read path is taken, the set of ids in the table
\* after a run contains every id that was in the table before that run.
C5_RowsNeverRemoved ==
  Synced => SheetIds(sheet_before) \subseteq SheetIds(sheet)

\* C6: after any sequence of sync runs, no two data rows of the tracking
\* table carry the same Item ID.
C6_UniqueItemIds ==
  \A r1, r2 \in 2..Len(sheet) :
    r1 # r2 => sheet[r1][Col("Item ID")] # sheet[r2][Col("Item ID")]

\* A sync wrote a listing that was tracked and is on the page again, next
\* to a tracked listing that left the page.
C6_Witness ==
  /\ Synced
  /\ Len(sheet) = 3
  /\ \E i \in Pos : items[i].id \in Tracked
  /\ \E id \in Tracked : id \notin CurrentItemIds(items)

RowUnchanged(id) ==
  \A r \in RowsOf(sheet_before, id) :
    AllRows(id, LAMBDA row :
                  \A label \in {"Status", "Price Change %", "Current Price", "New Price"} :
                    row[Col(label)] = sheet_before[r][Col(label)])

\* C8 (as stated): running the sync twice in a row on the same snapshot,
\* with no user edit and no live price change in between, changes no
\* persisted row's status, percent, current price or new price in the
\* second run.
C8_SecondRunClean ==
  (Synced /\ repeat /\ ReadOk) =>
    \A id \in SheetIds(sheet_before) : RowUnchanged(id)

\* C8 (amended): running the sync twice in a row on the same snapshot, with
\* no user edit and no live price change in between and the table read back
\* as written, leaves the status, percent, current price and new price of
\* every row unchanged in value in the second run, except the rows the first
\* run labelled New: those the second run relabels Active and reprices with
\* the stored percent. (The sheet is nevertheless cleared and every row
\* rewritten on each run.)
C8_SecondRunCleanExceptNew ==
  (Synced /\ repeat /\ ReadOk) =>
    \A id \in SheetIds(sheet_before) :
      IF \E r \in RowsOf(sheet_before, id) : sheet_before[r][Col("Status")] = Txt(StatusNew)
      THEN AllRows(id, LAMBDA row : row[Col("Status")] = Txt(StatusActive))
      ELSE RowUnchanged(id)

\* The second of two runs on one snapshot has rewritten an Active row whose
\* price is held by the floor, and a Sold/Removed row.
C8_Witness ==
  /\ Synced /\ repeat /\ ReadOk
  /\ \E i \in Pos :
       /\ items[i].id \in Tracked
       /\ Old(items[i].id)["Status"] = Txt(StatusActive)
       /\ Old(items[i].id)["Floor Price"] = Num(1000)
       /\ items[i].new_price = 1000
       /\ items[i].price = 1802
  /\ \E id \in Tracked : id \notin CurrentItemIds(items)

\* C9: a listing given status New in one run and observed again in the next
\* run (table read back as written) is given status Active in that run, and
\* its new_price is computed with the percent stored in its row (the seeded
\* default) instead of 0.
C9_NewThenActive ==
  (Synced /\ ReadOk) =>
    \A i \in Pos :
      (items[i].id \in Tracked /\ Old(items[i].id)["Status"] = Txt(StatusNew)) =>
        /\ AllRows(items[i].id, LAMBDA row : row[Col("Status")] = Txt(StatusActive))
        /\ (Old(items[i].id)["Price Change %"]).k = "num" =>
             items[i].price_change_percent = (Old(items[i].id)["Price Change %"]).n
        /\ ( /\ Old(items[i].id)["Price Change %"] = Num(default_percent)
             /\ Old(items[i].id)["Floor Price"] = Blank ) =>
             /\ items[i].price_change_percent = default_percent
             /\ items[i].new_price = (items[i].price * (100 + default_percent) + 50) \div 100

\* A listing labelled New by the previous run, its row untouched, is seen
\* again and repriced.
C9_Witness ==
  /\ Synced /\ ReadOk /\ repeat
  /\ \E i \in Pos :
       /\ items[i].id \in Tracked
       /\ Old(items[i].id)["Status"] = Txt(StatusNew)
       /\ items[i].price = 1802
       /\ items[i].new_price # items[i].price
       /\ AllRows(items[i].id, LAMBDA row : row[Col("Status")] = Txt(StatusActive))

\* C10 (as stated): a row labelled Sold/Removed is never reactivated: if its
\* id reappears in a later snapshot, the row's status does not return to
\* Active.
C10_SoldNeverActive ==
  Synced =>
    \A id \in SheetIds(sheet_before) :
      (\E r \in RowsOf(sheet_before, id) : sheet_before[r][Col("Status")] = Txt(StatusSold)) =>
        \A r \in RowsOf(sheet, id) : sheet[r][Col("Status")] # Txt(StatusActive)

\* C10 (amended): in a run whose table read returns the table, a row
\* labelled Sold/Removed keeps that label if its id is absent from the
\* snapshot; if its id reappears in the snapshot, the row is handled as an
\* existing row and relabelled Active.
C10_SoldActiveOnReturn ==
  (Synced /\ ReadOk) =>
    \A id \in SheetIds(sheet_before) :
      (\E r \in RowsOf(sheet_before, id) : sheet_before[r][Col("Status")] = Txt(StatusSold)) =>
        AllRows(id, LAMBDA row :
                  row[Col("Status")] =
                    (IF id \in CurrentItemIds(items) THEN Txt(StatusActive)
                     ELSE Txt(StatusSold)))

\* A Sold/Removed row whose id is in the snapshot again has been written.
C10_Witness ==
  /\ Synced /\ ReadOk
  /\ \E id \in Tracked :
       /\ Old(id)["Status"] = Txt(StatusSold)
       /\ id \in CurrentItemIds(items)
       /\ AllRows(id, LAMBDA row : row[Col("Status")] = Txt(StatusActive))

\* C11: for every tracked id absent from the snapshot, the row written by
\* the sync has the same Current Price, New Price and Floor Price as the
\* persisted row read at the start of the run.
C11_RemovedPricesFrozen ==
  (Synced /\ ReadOk) =>
    \A id \in SheetIds(sheet_before) :
      id \notin CurrentItemIds(items) =>
        \A r \in RowsOf(sheet_before, id) :
          AllRows(id, LAMBDA row :
                        \A label \in {"Current Price", "New Price", "Floor Price"} :
                          row[Col(label)] = sheet_before[r][Col(label)])

\* A listing whose new price differs from its current price and whose
\* floor the user typed has left the page and has been written.
C11_Witness ==
  /\ Synced /\ ReadOk
  /\ \E id \in Tracked :
       /\ id \notin CurrentItemIds(items)
       /\ Old(id)["Floor Price"] = Num(1000)
       /\ Old(id)["New Price"] # Old(id)["Current Price"]
       /\ AllRows(id, LAMBDA row : /\ row[Col("Status")] = Txt(StatusSold)
                                   /\ row[Col("Floor Price")] = Num(1000))

\* C12 (as stated): after every completed sync, in any sequence of runs
\* interleaved with user edits of Floor Price and Price Change %, every
\* table row whose Floor Price is set, whatever its status (Sold/Removed
\* rows included), has New Price greater than or equal to Floor Price.
C12_FloorBoundsEveryRow ==
  Synced =>
    \A r \in 2..Len(sheet) :
      FloatOk(sheet[r][Col("Floor Price")]) =>
        sheet[r][Col("New Price")].n >= sheet[r][Col("Floor Price")].n

\* C12 (amended): after every completed sync, in any sequence of runs
\* interleaved with user edits of Floor Price and Price Change %, every row
\* written for a listing of the snapshot (status New or Active) whose Floor
\* Price is set has New Price greater than or equal to Floor Price; a
\* Sold/Removed row is written with its stored New Price and Floor Price
\* unchanged, whether or not they respect the bound.
C12_FloorBoundsObservedRows ==
  Synced =>
    \A r \in 2..Len(sheet) :
      /\ ( /\ FloatOk(sheet[r][Col("Floor Price")])
           /\ sheet[r][Col("Status")] # Txt(StatusSold) ) =>
           sheet[r][Col("New Price")].n >= sheet[r][Col("Floor Price")].n
      /\ ( /\ sheet[r][Col("Status")] = Txt(StatusSold)
           /\ Str(sheet[r][Col("Item ID")]) \in Tracked ) =>
           /\ sheet[r][Col("New Price")] = Old(Str(sheet[r][Col("Item ID")]))["New Price"]
           /\ sheet[r][Col("Floor Price")] = Old(Str(sheet[r][Col("Item ID")]))["Floor Price"]

\* After a user edit, a sync has written an Active row held at its floor.
C12_Witness ==
  /\ Synced
  /\ \E r \in 2..Len(sheet) :
       /\ sheet[r][Col("Status")] = Txt(StatusActive)
       /\ sheet[r][Col("Floor Price")] = Num(1000)
       /\ sheet[r][Col("New Price")] = Num(1000)
       /\ sheet[r][Col("Current Price")] = Num(1802)
       /\ sheet[r][Col("Price Change %")] = Num(-50)

\* C13: for a tracked listing present in the snapshot, the percent used is
\* the stored Price Change % when that cell is non-blank and parses as a
\* number, otherwise default_percent; the floor used is the stored Floor
\* Price when it is non-blank and parses, otherwise no floor (no clamping).
C13_StoredPolicyResolved ==
  Synced =>
    \A i \in Pos :
      items[i].id \in Tracked =>
        LET pcell   == Old(items[i].id)["Price Change %"]
            fcell   == Old(items[i].id)["Floor Price"]
            percent == IF pcell.k = "num" THEN pcell.n ELSE default_percent
            raw     == (items[i].price * (100 + percent) + 50) \div 100
        IN  /\ items[i].price_change_percent = percent
            /\ items[i].floor_price = (IF fcell.k = "num" THEN fcell ELSE Blank)
            /\ items[i].new_price =
                 (IF fcell.k = "num" /\ raw < fcell.n THEN fcell.n ELSE raw)

\* A tracked listing whose percent and floor cells are both unparsable has
\* been priced with the default percent and no floor.
C13_Witness ==
  /\ Synced
  /\ \E i \in Pos :
       /\ items[i].id \in Tracked
       /\ Old(items[i].id)["Price Change %"] = Txt("abc")
       /\ Old(items[i].id)["Floor Price"] = Txt("abc")
       /\ items[i].price_change_percent = default_percent
       /\ items[i].floor_price = Blank
       /\ items[i].new_price # items[i].price

\* C14: for a newly discovered listing the row is written with Price
\* Change % equal to the configured default_percent and an empty Floor
\* Price, while the new_price written in that same row is computed with 0
\* percent.
C14_NewRowSeeded ==
  Synced =>
    \A i \in Pos :
      items[i].id \notin Tracked =>
        AllRows(items[i].id, LAMBDA row :
                  /\ row[Col("Price Change %")] = Num(default_percent)
                  /\ row[Col("Floor Price")] = Blank
                  /\ row[Col("New Price")] = Num(items[i].price)
                  /\ row[Col("Status")] = Txt(StatusNew))

\* A listing has been discovered and written while the default percent
\* would have changed its price.
C14_Witness ==
  /\ Synced
  /\ \E i \in Pos :
       /\ items[i].id \notin Tracked
       /\ items[i].price = 1802
       /\ default_percent # 0
       /\ AllRows(items[i].id, LAMBDA row :
                    /\ row[Col("Price Change %")] = Num(default_percent)
                    /\ row[Col("New Price")] = Num(1802))

\* Row r of the sheet lies in the range of an update call of this sync.
Covered(r) ==
  \E k \in 1..Len(sheet_ops) :
    /\ sheet_ops[k].op = "update"
    /\ sheet_ops[k].first <= r
    /\ r <= sheet_ops[k].last

\* The dirty test of the specification for the tracked listing items[i]:
\* current price off by more than 0.05, or another status, title or url.
Dirty(i) ==
  LET old == Old(items[i].id)
  IN  \/ old["Current Price"].k # "num"
      \/ items[i].price - old["Current Price"].n > 5
      \/ old["Current Price"].n - items[i].price > 5
      \/ old["Status"] # Txt(items[i].status)
      \/ old["Title"] # Txt(items[i].title)
      \/ old["URL"] # Txt(items[i].url)

ChangedRows ==
  {r \in 2..Len(sheet_before) :
     \/ Str(sheet_before[r][Col("Item ID")]) \notin CurrentItemIds(items)
     \/ \E i \in Pos : /\ items[i].id = Str(sheet_before[r][Col("Item ID")])
                       /\ Dirty(i)}

GiveSnapshot(links) ==
  /\ pc = "idle"
  /\ links # <<>>
  /\ driver' = "open"
  /\ items' = links
  /\ pc' = "fetched"
  /\ raised' = FALSE
  /\ quit_calls' = 0
  /\ UNCHANGED <<live, scroll, default_percent, sheet, existing_dict, read_mode, can_update,
                 update_calls, sheet_before, last_snapshot, edited, repeat,
                 sheet_ops>>

NextDup ==
  \/ \E links \in LinkSeqs : GiveSnapshot(links)
  \/ \E mode \in ReadModes : Sync(mode)
  \/ \E ok \in BOOLEAN : Login(ok)
  \/ UpdatePrices
  \/ Finally

SpecDup == Init /\ [][NextDup]_vars

(***************************************************************************)
(* Cells typed with a comma as decimal separator                           *)
(***************************************************************************)
CommaPercentText == "-50,0"
CommaFloorText == "10,00"

\* The number the text denotes once ',' is replaced by '.': a percent, or a
\* price in cents.
DotValue(s) == IF s = CommaPercentText THEN -50 ELSE 1000

\* Between two runs the user types a comma decimal into the Floor Price or
\* the Price Change % cell of a row; the sheet hands it back as text.
UserEditComma(r, col) ==
  /\ pc = "idle"
  /\ r \in 2..Len(sheet)
  /\ Str(sheet[r][1]) \in EditableIds
  /\ \/ col = Col("Floor Price") /\ sheet' = [sheet EXCEPT ![r][col] = Txt(CommaFloorText)]
     \/ col = Col("Price Change %") /\ sheet' = [sheet EXCEPT ![r][col] = Txt(CommaPercentText)]
  /\ sheet' # sheet
  /\ edited' = TRUE
  /\ UNCHANGED <<live, raised, quit_calls, scroll, default_percent, pc, items, existing_dict, read_mode,
                 can_update, update_calls, driver, sheet_before,
                 last_snapshot, repeat, sheet_ops>>

NextComma ==
  \/ \E links \in LinkSeqs : Fetch(links)
  \/ \E mode \in ReadModes : Sync(mode)
  \/ \E ok \in BOOLEAN : Login(ok)
  \/ UpdatePrices
  \/ Finally
  \/ \E r \in 2..Len(sheet) : UserEditComma(r, Col("Floor Price"))
  \/ \E r \in 2..Len(sheet) : UserEditComma(r, Col("Price Change %"))

SpecComma == Init /\ [][NextComma]_vars

\* Some row of the table read by this sync contains the 'Item ID' label.
HasIdLabel ==
  \E h \in 1..Len(sheet_before) : \E c \in 1..9 : sheet_before[h][c] = Txt("Item ID")

C18_ManualReadByLabel ==
  (Synced /\ read_mode = "manual") =>
    LET H == {h \in 1..Len(sheet_before) :
                \E c \in 1..9 : sheet_before[h][c] = Txt("Item ID")}
    IN  IF H = {} THEN Tracked = {}
        ELSE LET h == CHOOSE x \in H : \A y \in H : x <= y
                 ColumnOf(label) == CHOOSE c \in 1..9 : sheet_before[h][c] = Txt(label)
                 below == {r \in (h + 1)..Len(sheet_before) :
                             sheet_before[r][ColumnOf("Item ID")] # Blank}
             IN  /\ Tracked = {Str(sheet_before[r][ColumnOf("Item ID")]) : r \in below}
                 /\ \A r \in below :
                      \A i \in 1..9 :
                        Old(Str(sheet_before[r][ColumnOf("Item ID")]))[Labels[i]]
                          = sheet_before[r][ColumnOf(Labels[i])]

\* The manual scan has read a table with a title row above the header and a
\* data row below it.
C18_Witness ==
  /\ Synced
  /\ read_mode = "manual"
  /\ Len(sheet_before) >= 3
  /\ sheet_before[1] = TitleRow
  /\ sheet_before[2] = HeaderRow
  /\ Str(sheet_before[3][Col("Item ID")]) \in Tracked
  /\ "My Vinted items" \notin Tracked

\* The first position of the snapshot that holds the id.
FirstPos(id) == CHOOSE i \in Pos : items[i].id = id /\ \A j \in Pos : items[j].id = id => i <= j

C20_CommaResolvedAsDot ==
  (Synced /\ ReadOk) =>
    \A i \in Pos :
      ~items[i].is_new_discovery =>
        /\ Old(items[i].id)["Price Change %"] = Txt(CommaPercentText)
             => items[i].price_change_percent = DotValue(CommaPercentText)
        /\ Old(items[i].id)["Floor Price"] = Txt(CommaFloorText)
             => items[i].floor_price = Num(DotValue(CommaFloorText))

(***************************************************************************)
(* A header row repeated below the header                                  *)
(***************************************************************************)
\* Between two runs a copy of the header row ends up below the data rows
\* (a pasted export, or an older run's header left in place).
RepeatHeaderRow ==
  /\ pc = "idle"
  /\ Len(sheet) >= 2
  /\ sheet[1] = HeaderRow
  /\ \A r \in 2..Len(sheet) : sheet[r] # HeaderRow
  /\ sheet' = Append(sheet, HeaderRow)
  /\ edited' = TRUE
  /\ UNCHANGED <<live, raised, quit_calls, scroll, default_percent, pc, items, existing_dict, read_mode,
                 can_update, update_calls, driver, sheet_before,
                 last_snapshot, repeat, sheet_ops>>

NextRepeat ==
  \/ \E links \in LinkSeqs : Fetch(links)
  \/ \E mode \in ReadModes : Sync(mode)
  \/ \E ok \in BOOLEAN : Login(ok)
  \/ UpdatePrices
  \/ Finally
  \/ RepeatHeaderRow

\* Runs of the bot on a table in which the header row gets repeated.
SpecRepeat == Init /\ [][NextRepeat]_vars

\* C21: when the table contains a repeated header row below the first
\* header, the manual read path does not materialize that row as a tracked
\* listing: no key of the tracked mapping is the label 'Item ID', and no row
\* with that label as id is written as Sold/Removed.
C21_NoPhantomHeaderRow ==
  (Synced /\ read_mode = "manual") =>
    /\ "Item ID" \notin Tracked
    /\ \A r \in 2..Len(sheet) :
         ~(sheet[r][Col("Item ID")] = Txt("Item ID")
           /\ sheet[r][Col("Status")] = Txt(StatusSold))

(***************************************************************************)
(* get_listed_items, pass by pass                                          *)
(***************************************************************************)
\* Lines 455-458: the locals are initialised.
StartScroll ==
  /\ scroll.pos = "off"
  /\ pc = "idle"
  /\ scroll' = [ScrollOff EXCEPT !.pos = "loop"]
  /\ UNCHANGED <<live, raised, quit_calls, default_percent, sheet, pc, items, existing_dict, read_mode,
                 can_update, update_calls, driver, sheet_before,
                 last_snapshot, edited, repeat, sheet_ops>>

\* Lines 460-562: one pass of the while loop over the links now visible.
ScrollPass(item_links) ==
  /\ scroll.pos = "loop"
  /\ KeepScrolling(scroll.scroll_attempts, scroll.no_new_items_count)
  /\ LET after == ScrapeLinks(item_links, 1, scroll.processed_ids, scroll.items, 0)
     IN  scroll' =
           [scroll EXCEPT
              !.processed_ids = after.processed_ids,
              !.items = after.items,
              !.no_new_items_count =
                 IF after.items_found_this_scroll = 0 THEN @ + 1 ELSE 0,
              !.scroll_attempts = @ + 1,
              !.passes = @ + 1,
              !.dry = IF Len(after.items) = Len(scroll.items) THEN @ + 1 ELSE 0,
              !.first_read = [id \in Ids \cup PageIds |->
                                IF @[id] # -1 THEN @[id]
                                ELSE FirstReadable(item_links, id)]]
  /\ UNCHANGED <<live, raised, quit_calls, default_percent, sheet, pc, items, existing_dict, read_mode,
                 can_update, update_calls, driver, sheet_before,
                 last_snapshot, edited, repeat, sheet_ops>>

\* Lines 564-567: the loop has ended and items is returned.
ReturnItems ==
  /\ scroll.pos = "loop"
  /\ ~KeepScrolling(scroll.scroll_attempts, scroll.no_new_items_count)
  /\ scroll' = [scroll EXCEPT !.pos = "done"]
  /\ UNCHANGED <<live, raised, quit_calls, default_percent, sheet, pc, items, existing_dict, read_mode,
                 can_update, update_calls, driver, sheet_before,
                 last_snapshot, edited, repeat, sheet_ops>>

NextScroll ==
  \/ StartScroll
  \/ \E item_links \in Passes : ScrollPass(item_links)
  \/ ReturnItems

\* One call of get_listed_items on a page that shows any links in any pass.
\* The loop is sequential code: a pass that can be made is made.
SpecScroll == Init /\ [][NextScroll]_vars /\ WF_vars(NextScroll)

\* The positions of scroll.items holding the id.
ScrapedAt(id) == {i \in 1..Len(scroll.items) : scroll.items[i].id = id}

\* C22: the list returned by get_listed_items never contains two entries
\* with the same id, whatever links the passes show and however often; the
\* entry kept for an id is the one of the first pass in which a link of that
\* id was parsed successfully.
C22_ScrapedOncePerId ==
  \A id \in Ids :
    IF scroll.first_read[id] = -1
    THEN ScrapedAt(id) = {}
    ELSE /\ Cardinality(ScrapedAt(id)) = 1
         /\ \A i \in ScrapedAt(id) : scroll.items[i] = Link(id, scroll.first_read[id])

\* The list is returned with one entry for listing 101 at its first price,
\* after later passes showed the same link again at another price.
C22_Witness ==
  /\ scroll.pos = "done"
  /\ scroll.passes > NoNewLimit
  /\ Len(scroll.items) = 2
  /\ scroll.first_read["101"] = 1802

NextLongPage ==
  \/ StartScroll
  \/ \E item_links \in Windows(Len(scroll.items)) : ScrollPass(item_links)
  \/ ReturnItems

\* One call of get_listed_items on a profile page long enough for the loop
\* to reach max_scrolls.
SpecLongPage == Init /\ [][NextLongPage]_vars /\ WF_vars(NextLongPage)

\* C30: the scroll-and-collect loop of get_listed_items terminates for every
\* page behaviour: a pass is made only while fewer than 20 passes were made
\* and fewer than 3 passes in a row added no item, and the loop ends.
C30_ScrollTerminates ==
  /\ [][scroll'.passes = scroll.passes + 1 =>
          /\ scroll.passes < max_scrolls
          /\ scroll.dry < NoNewLimit]_vars
  /\ (scroll.pos = "loop") ~> (scroll.pos = "done")

\* The loop has ended after max_scrolls passes, the latest of which still
\* found something new one or two passes ago.
C30_Witness ==
  /\ scroll.pos = "done"
  /\ scroll.passes = max_scrolls
  /\ scroll.dry < NoNewLimit

\* The login of this run has raised.
LoginFailed == pc \in {"logged", "finally"} /\ read_mode # "none" /\ ~can_update

\* C23: if login_to_vinted raises, run() has already completed the sheet
\* sync, calls update_item_price for no item, and returns normally without
\* propagating the login exception.
C23_LoginFailureSkipsUpdates ==
  LoginFailed =>
    /\ sheet_ops # <<>>
    /\ sheet[1] = HeaderRow
    /\ \A i \in Pos : sheet[1 + i][Col("Item ID")] = Txt(items[i].id)
    /\ update_calls = <<>>
    /\ ~raised

\* The login raised in a run that had a price to change; the run is at its
\* finally block.
C23_Witness ==
  /\ pc = "finally"
  /\ LoginFailed
  /\ ItemsToUpdate(items) # <<>>

\* C24: if get_listed_items returns an empty list, run() returns without
\* reading, clearing or writing the sheet and without logging in: it goes
\* straight to its end, the sheet stays as it was, and no update is made.
C24_EmptySnapshotLeavesSheet ==
  [][/\ (pc = "idle" /\ pc' # "idle" /\ items' = <<>>) =>
          (pc' = "finally" /\ sheet' = sheet)
     /\ (pc # "idle" /\ items = <<>>) =>
          /\ pc' = "idle"
          /\ sheet' = sheet
          /\ sheet_ops = <<>>
          /\ read_mode = "none"
          /\ ~can_update
          /\ update_calls = <<>>]_vars

\* A run on an empty profile page is ending while the sheet still shows a
\* listing as Active.
C24_Witness ==
  /\ pc = "finally"
  /\ items = <<>>
  /\ \E r \in 2..Len(sheet) : sheet[r][Col("Status")] = Txt(StatusActive)

(***************************************************************************)
(* Runs whose price updates succeed                                        *)
(***************************************************************************)
\* Listings whose price on the site is followed from run to run.
FollowedIds == {"101"}

\* The seller lists the followed listings; the bot is configured to lower
\* prices.
ListOnSite(prices) ==
  /\ pc = "idle"
  /\ live = NoLive
  /\ default_percent < 0
  /\ live' = prices
  /\ UNCHANGED <<default_percent, sheet, pc, items, existing_dict, read_mode,
                 can_update, update_calls, driver, sheet_before,
                 last_snapshot, edited, repeat, sheet_ops, scroll, raised,
                 quit_calls>>

\* What the profile page yields when the prices are the followed ones.
LiveSeqs(lv) == {<<>>} \cup {<<Link(id, lv[id])>> : id \in DOMAIN lv}

NextChain ==
  \/ \E prices \in [FollowedIds -> UNION {PricesOf(id) : id \in FollowedIds}] :
       ListOnSite(prices)
  \/ \E links \in LiveSeqs(live) : Fetch(links)
  \/ \E mode \in ReadModes : Sync(mode)
  \/ \E ok \in BOOLEAN : Login(ok)
  \/ UpdatePrices
  \/ Finally
  \/ \E r \in 2..Len(sheet), cell \in UserFloorCells :
       UserEdit(r, Col("Floor Price"), cell)

\* Successive runs in which the price a run saves is the price the next run
\* scrapes.
SpecChain == Init /\ [][NextChain]_vars

\* C25: over successive runs in which each price update succeeds, for a
\* tracked listing with a negative stored percent and a floor price set: the
\* price passed to update_item_price is never below the floor, and once the
\* live price equals the floor the listing is no longer selected for update
\* (its new_price equals its price).
C25_ChainStopsAtFloor ==
  /\ \A j \in 1..Len(update_calls) :
       (update_calls[j].floor_price.k = "num" /\ update_calls[j].price_change_percent < 0) =>
         /\ update_calls[j].new_price >= update_calls[j].floor_price.n
         /\ live[update_calls[j].id] >= update_calls[j].floor_price.n
  /\ Synced =>
       \A i \in Pos :
         (/\ ~items[i].is_new_discovery
          /\ items[i].price_change_percent < 0
          /\ items[i].floor_price.k = "num"
          /\ items[i].price = items[i].floor_price.n) =>
           /\ items[i].new_price = items[i].price
           /\ \A j \in 1..Len(update_calls) : update_calls[j].id # items[i].id

\* A run with a successful login ends without an update: the listing's live
\* price is the floor, which the previous run's update brought it down to.
C25_Witness ==
  /\ pc = "finally"
  /\ can_update
  /\ update_calls = <<>>
  /\ \E i \in Pos :
       /\ items[i].id \in Tracked
       /\ items[i].price_change_percent < 0
       /\ items[i].floor_price.k = "num"
       /\ items[i].price = items[i].floor_price.n
       /\ live[items[i].id] = items[i].price
       /\ Old(items[i].id)["Current Price"].n > items[i].price
       /\ Old(items[i].id)["New Price"] = Num(items[i].price)

(***************************************************************************)
(* Listings scraped without a price, or below their floor                  *)
(***************************************************************************)
\* Prices the page shows: 0 stands for a price element that is missing or
\* empty (lines 491-530).
LowPricesOf(id) == IF id = "101" THEN {0, 900} ELSE {1000}

LowLinks == UNION {{Link(id, p) : p \in LowPricesOf(id)} : id \in Ids}

LowLinkSeqs == UNION {[1..n -> LowLinks] : n \in 0..MaxLinks}

NextLow ==
  \/ \E links \in LowLinkSeqs : Fetch(links)
  \/ \E mode \in ReadModes : Sync(mode)
  \/ \E ok \in BOOLEAN : Login(ok)
  \/ UpdatePrices
  \/ Finally
  \/ \E r \in 2..Len(sheet), col \in {Col("Floor Price"), Col("Price Change %")},
        cell \in UserFloorCells \cup UserPercentCells :
       UserEdit(r, col, cell)

\* Runs of the bot on a page where a listing shows no price or a price
\* under the floor its row holds.
SpecLow == Init /\ [][NextLow]_vars

\* C26: a tracked listing whose scraped price is 0 is never selected for
\* update_item_price, for every stored percent and every floor price.
C26_UnpricedNeverUpdated ==
  \A j \in 1..Len(update_calls) : update_calls[j].price # 0

\* The row the sync read for the listing holds the 0 percent that is written
\* when a row is marked removed (no new row gets it, and no user cell is 0).
HoldsRemovedPercent(i) ==
  /\ items[i].id \in Tracked
  /\ Old(items[i].id)["Price Change %"] = Num(0)

\* C27 (as stated): when an id whose row is Sold/Removed reappears in a
\* snapshot, it is handled as an existing row and the percent resolved for
\* it is the 0 written when it was marked removed, so its new_price equals
\* its current price on that run and, the 0 being written back, on every
\* later run until the user edits the Price Change % cell.
C27_ReturnedRowKeepsPrice ==
  Synced =>
    \A i \in Pos :
      HoldsRemovedPercent(i) =>
        /\ ~items[i].is_new_discovery
        /\ items[i].price_change_percent = 0
        /\ sheet[1 + i][Col("Price Change %")] = Num(0)
        /\ items[i].new_price = items[i].price

\* C27 (amended): such a row is handled as an existing row with percent 0,
\* and 0 is written back; its new_price is its current price, or the stored
\* Floor Price when that is higher. When both table reads fail no row is
\* seen, and every listing is handled as a new discovery.
C27_ReturnedRowPriceOrFloor ==
  Synced =>
    /\ \A i \in Pos :
         HoldsRemovedPercent(i) =>
           /\ ~items[i].is_new_discovery
           /\ items[i].price_change_percent = 0
           /\ sheet[1 + i][Col("Price Change %")] = Num(0)
           /\ items[i].new_price =
                IF Old(items[i].id)["Floor Price"].k = "num"
                   /\ items[i].price < Old(items[i].id)["Floor Price"].n
                THEN Old(items[i].id)["Floor Price"].n
                ELSE items[i].price
    /\ read_mode = "fail" => \A i \in Pos : items[i].is_new_discovery

\* A listing whose row was Sold/Removed is back on the page at a price under
\* the floor its row holds.
C27_Witness ==
  /\ Synced
  /\ \E i \in Pos :
       /\ HoldsRemovedPercent(i)
       /\ Old(items[i].id)["Status"] = Txt(StatusSold)
       /\ Old(items[i].id)["Floor Price"].k = "num"
       /\ items[i].price < Old(items[i].id)["Floor Price"].n
       /\ items[i].new_price # items[i].price

\* The positions of the snapshot whose listing is already tracked and has a
\* new_price different from its price.
Changed == {i \in Pos : items[i].id \in Tracked /\ items[i].new_price # items[i].price}

\* C28: in a run whose login succeeds, update_item_price is called at most
\* once, and only for the last listing in snapshot order among those that
\* are already tracked and have new_price different from price.
C28_OnlyLastChangedUpdated ==
  (can_update /\ pc \in {"logged", "finally"}) =>
    /\ Len(update_calls) <= 1
    /\ Len(update_calls) = 1 =>
         /\ Changed # {}
         /\ update_calls[1] = items[CHOOSE i \in Changed : \A j \in Changed : j <= i]

\* After a successful login one update was made although two tracked
\* listings had a price to change.
C28_Witness ==
  /\ pc = "finally"
  /\ can_update
  /\ Len(update_calls) = 1
  /\ Cardinality(Changed) = 2

(***************************************************************************)
(* Exceptions that leave run()                                             *)
(***************************************************************************)
\* setup_driver raises before self.driver is set (lines 139-141).
SetupRaises ==
  /\ pc = "idle"
  /\ driver' = "none"
  /\ raised' = TRUE
  /\ quit_calls' = 0
  /\ pc' = "finally"
  /\ UNCHANGED <<default_percent, sheet, items, existing_dict, read_mode,
                 can_update, update_calls, sheet_before, last_snapshot,
                 edited, repeat, sheet_ops, scroll, live>>

\* The driver is created, then setup_google_sheets or get_listed_items
\* raises (lines 1124-1128, 569-571).
ScrapeRaises ==
  /\ pc = "idle"
  /\ driver' = "open"
  /\ raised' = TRUE
  /\ quit_calls' = 0
  /\ pc' = "finally"
  /\ UNCHANGED <<default_percent, sheet, items, existing_dict, read_mode,
                 can_update, update_calls, sheet_before, last_snapshot,
                 edited, repeat, sheet_ops, scroll, live>>

\* sync_with_google_sheets raises in its n-th call on the sheet (lines
\* 739-741): the calls before it have taken effect.
SyncRaises(mode, n) ==
  /\ pc = "fetched"
  /\ mode = "records" => ~HeaderNotUnique(sheet)
  /\ LET ops  == SheetOps(UpdatedRows(items, ReadExisting(sheet, mode), default_percent))
         done == SubSeq(ops, 1, n - 1)
     IN  /\ n \in 1..Len(ops)
         /\ sheet' = ApplyOps(sheet, done, 1)
         /\ sheet_ops' = Ranges(done)
  /\ sheet_before' = sheet
  /\ edited' = (edited \/ sheet' # sheet)
  /\ raised' = TRUE
  /\ pc' = "finally"
  /\ UNCHANGED <<default_percent, items, existing_dict, read_mode, can_update,
                 update_calls, driver, last_snapshot, repeat, scroll,
                 quit_calls, live>>

NextExc ==
  \/ \E links \in LinkSeqs : Fetch(links)
  \/ \E mode \in ReadModes : Sync(mode)
  \/ \E ok \in BOOLEAN : Login(ok)
  \/ UpdatePrices
  \/ Finally
  \/ SetupRaises
  \/ ScrapeRaises
  \/ \E mode \in ReadModes, n \in 1..Len(SheetOps(<<>>)) : SyncRaises(mode, n)

\* Runs of the bot in which the browser, the scrape or the sheet may fail.
SpecExc == Init /\ [][NextExc]_vars

\* C29: on every exit path of run() after the driver has been created
\* (normal completion, early return on an empty snapshot, login failure,
\* exception raised by scraping or by the sheet sync), driver.quit() is
\* called exactly once before run() ends, and not while run() is under way.
C29_DriverQuitOnce ==
  IF pc = "idle"
  THEN \/ driver = "quit" /\ quit_calls = 1
       \/ driver = "none" /\ quit_calls = 0
  ELSE quit_calls = 0

\* A run has ended with an exception of the sheet sync, which had cleared
\* the sheet, and with the driver quit.
C29_Witness ==
  /\ pc = "idle"
  /\ raised
  /\ driver = "quit"
  /\ quit_calls = 1
  /\ sheet = <<>>
  /\ last_snapshot # <<>>

====
